---- MODULE Spec2Model ----
(***************************************************************************)
(* Model of src/app.py: the channel resolver (resolve_to_channel_id and    *)
(* its three lookups), the fetch pipeline (get_uploads_playlist_id,        *)
(* list_upload_video_ids, fetch_video_details, load_channel_data) and the  *)
(* aggregator (in_range, compute_kpis).                                    *)
(*                                                                         *)
(* Text is a sequence of one-character strings, so that trimming, the      *)
(* regular expressions and the duration decode work on characters as the   *)
(* code does.  Every blocking upstream call is one step: the environment   *)
(* chooses the response (status and body) of that call.                    *)
(***************************************************************************)
EXTENDS Integers, Sequences, FiniteSets, TLC

VARIABLES
    \* ---- resolver ----
    input_str,      \* the text handed to resolve_to_channel_id
    rpc,            \* "start" | "handle" | "username" | "search" | "done" | "off"
    rarg,           \* argument of the pending lookup (handle, username or query)
    calls,          \* upstream calls issued so far, with the response each got
    routcome,       \* what the caller of the resolver receives
    \* ---- fetch pipeline ----
    fpc,            \* "meta" | "page" | "details" | "sort" | "done" | "off"
    max_items,      \* load_channel_data's max_items
    ids,            \* list_upload_video_ids: ids
    token,          \* list_upload_video_ids: token (None or a page token)
    groups,         \* fetch_video_details: the chunks still to be requested
    out,            \* fetch_video_details: out
    fcalls,         \* upstream calls issued by the pipeline, with their responses
    foutcome,       \* what the caller of load_channel_data receives
    \* ---- aggregator ----
    kpc,            \* "call" | "done" | "off"
    videos, start, end, short_threshold_sec,   \* compute_kpis's arguments
    kpis            \* compute_kpis's result

varsR == <<input_str, rpc, rarg, calls, routcome>>
varsF == <<fpc, max_items, ids, token, groups, out, fcalls, foutcome>>
varsK == <<kpc, videos, start, end, short_threshold_sec, kpis>>
vars == <<varsR, varsF, varsK>>

\* Python's None where an instant or a page token is expected; instants and
\* tokens are naturals, and datetime.min (the sort key of a missing instant)
\* is below every instant
None == -1

\* --------------------------------------------------------------------------
\* Bounds of the model
\* --------------------------------------------------------------------------
\* most path segments after the host in a generated URL input
MaxSegs == 2
\* largest max_items a fetch is started with
MaxItemsBound == 120
\* the uploads container ends within this many pages
MaxPages == 4

\* --------------------------------------------------------------------------
\* Characters and text
\* --------------------------------------------------------------------------
Upper == {"A","B","C","D","E","F","G","H","I","J","K","L","M",
          "N","O","P","Q","R","S","T","U","V","W","X","Y","Z"}
Lower == {"a","b","c","d","e","f","g","h","i","j","k","l","m",
          "n","o","p","q","r","s","t","u","v","w","x","y","z"}
Digits == {"0","1","2","3","4","5","6","7","8","9"}
\* what str.strip() removes
Whitespace == {" ", "\t", "\n", "\r"}
\* [0-9A-Za-z_-]
IdChars == Digits \cup Upper \cup Lower \cup {"_", "-"}
\* [A-Za-z0-9_.-]
HandleChars == Upper \cup Lower \cup Digits \cup {"_", ".", "-"}
\* [A-Za-z0-9]
UserChars == Upper \cup Lower \cup Digits

Min(S) == CHOOSE x \in S : \A y \in S : x <= y
Max(S) == CHOOSE x \in S : \A y \in S : x >= y

Rep(c, n) == [i \in 1..n |-> c]

\* s.startswith(lit); also "lit occurs in s at position i"
MatchAt(s, i, lit) ==
    /\ i >= 1
    /\ i + Len(lit) - 1 <= Len(s)
    /\ \A k \in 1..Len(lit) : s[i + k - 1] = lit[k]

startswith(s, lit) == MatchAt(s, 1, lit)

\* str.strip(): drop leading and trailing whitespace
strip_identity(s) == s
strip(s) ==
    LET keep == {i \in 1..Len(s) : s[i] \notin Whitespace}
    IN  IF keep = {} THEN <<>> ELSE SubSeq(s, Min(keep), Max(keep))

\* str.rstrip("/")
rstrip_slash(s) ==
    LET keep == {i \in 1..Len(s) : s[i] # "/"}
    IN  IF keep = {} THEN <<>> ELSE SubSeq(s, 1, Max(keep))

\* s.split("/")[-1]
last_piece(s) ==
    LET cuts == {i \in 1..Len(s) : s[i] = "/"}
    IN  IF cuts = {} THEN s ELSE SubSeq(s, Max(cuts) + 1, Len(s))

\* the end of the longest run of characters of class cls that starts at j
\* (j - 1 when s[j] is not in cls): a greedy cls* at position j
RunEnd(s, j, cls) ==
    CHOOSE e \in (j - 1)..Len(s) :
        /\ \A k \in j..e : s[k] \in cls
        /\ (e = Len(s) \/ s[e + 1] \notin cls)

NoMatch == [found |-> FALSE, group |-> <<>>]

\* re.search(lit + "(" + cls + "+)", s): leftmost match, greedy group
SearchRun(s, lit, cls) ==
    LET hits == {i \in 1..Len(s) :
                    /\ MatchAt(s, i, lit)
                    /\ i + Len(lit) <= Len(s)
                    /\ s[i + Len(lit)] \in cls}
    IN  IF hits = {} THEN NoMatch
        ELSE LET j == Min(hits) + Len(lit)
             IN  [found |-> TRUE, group |-> SubSeq(s, j, RunEnd(s, j, cls))]

\* --------------------------------------------------------------------------
\* Channel resolver
\* --------------------------------------------------------------------------
\* the {22} of the channel-ID pattern
IdBodyLen == 22

\* re.fullmatch(r"UC[0-9A-Za-z_-]{22}", s)
IsChannelId(s) ==
    /\ Len(s) = 2 + IdBodyLen
    /\ s[1] = "U"
    /\ s[2] = "C"
    /\ \A k \in 3..Len(s) : s[k] \in IdChars

ChannelLit == <<"/","c","h","a","n","n","e","l","/">>
HandleLit == <<"/","@">>
UserLit == <<"/","u","s","e","r","/">>
CustomLit == <<"/","c","/">>
Http == <<"h","t","t","p",":","/","/">>
Https == <<"h","t","t","p","s",":","/","/">>

\* re.search(r"/channel/(UC[0-9A-Za-z_-]{22})", s)
SearchChannel(s) ==
    LET n == Len(ChannelLit)
        hits == {i \in 1..Len(s) :
                    /\ MatchAt(s, i, ChannelLit)
                    /\ i + n + 1 + IdBodyLen <= Len(s)
                    /\ IsChannelId(SubSeq(s, i + n, i + n + 1 + IdBodyLen))}
    IN  IF hits = {} THEN NoMatch
        ELSE LET j == Min(hits) + n
             IN  [found |-> TRUE, group |-> SubSeq(s, j, j + 1 + IdBodyLen)]

Route(kind, arg) == [kind |-> kind, arg |-> arg]

\* the lookups tried on a URL that has no /channel/<ID> match
UrlLookups(s) ==
    LET h == SearchRun(s, HandleLit, HandleChars)
        u == SearchRun(s, UserLit, UserChars)
        c == SearchRun(s, CustomLit, HandleChars)
    IN  IF h.found THEN Route("handle", <<"@">> \o h.group)
        ELSE IF u.found THEN Route("username", u.group)
        ELSE IF c.found THEN Route("search", c.group)
        ELSE Route("search", last_piece(rstrip_slash(s)))

\* a plausible slip: the handle, user and custom patterns tried before /channel/
UrlRoute_lookups_first(s) ==
    LET h == SearchRun(s, HandleLit, HandleChars)
        u == SearchRun(s, UserLit, UserChars)
        c == SearchRun(s, CustomLit, HandleChars)
        m == SearchChannel(s)
    IN  IF h.found \/ u.found \/ c.found THEN UrlLookups(s)
        ELSE IF m.found THEN Route("return", m.group)
        ELSE UrlLookups(s)

\* the URL branch of resolve_to_channel_id
UrlRoute(s) ==
    LET m == SearchChannel(s)
    IN  IF m.found THEN Route("return", m.group) ELSE UrlLookups(s)

\* what resolve_to_channel_id does with the trimmed input s before any call
RouteOf(s) ==
    IF s = <<>> THEN Route("empty", <<>>)
    ELSE IF IsChannelId(s) THEN Route("return", s)
    ELSE IF startswith(s, Http) \/ startswith(s, Https) THEN UrlRoute(s)
    ELSE IF startswith(s, <<"@">>) THEN Route("handle", s)
    ELSE Route("username", s)

\* ---- the upstream API as the resolver sees it ----
\* HTTP statuses the environment may answer with
Statuses == {200, 403, 500}

\* channel IDs the upstream may answer with
ChanA == <<"U","C">> \o Rep("A", IdBodyLen)
ChanB == <<"U","C">> \o Rep("B", IdBodyLen)

\* A response: its status, whether the body is JSON at all, and the body's
\* "items" (absent in an error body, which r.get("items", []) reads as []).
\* A success carries zero, one or two results; a failure carries the API's
\* error object or a body that is not JSON.
LookupResponses ==
    {[status |-> 200, json |-> TRUE, items |-> it] :
        it \in {<<>>, <<ChanA>>, <<ChanB, ChanA>>}}
    \cup {[status |-> st, json |-> j, items |-> <<>>] :
        st \in Statuses \ {200}, j \in BOOLEAN}

NoOutcome == [kind |-> "none", value |-> <<>>, msg |-> "", status |-> 0]
Returned(v) == [kind |-> "return", value |-> v, msg |-> "", status |-> 0]
Raised(kind, msg) == [kind |-> kind, value |-> <<>>, msg |-> msg, status |-> 0]
HTTPError(st) == [kind |-> "HTTPError", value |-> <<>>, msg |-> "", status |-> st]

Call(fn, arg, resp) == [fn |-> fn, arg |-> arg, resp |-> resp]

\* ---- inputs ----
IdV1 == <<"U","C">> \o Rep("a", IdBodyLen)
IdV2 == <<"U","C","_","-","0","Z">> \o Rep("b", IdBodyLen - 4)
IdLong == <<"U","C">> \o Rep("c", IdBodyLen + 1)
IdShort == <<"U","C">> \o Rep("d", IdBodyLen - 1)
Host == <<"y",".","t">>

SegPool ==
    { ChannelLit \o IdV1, ChannelLit \o IdV2,
      ChannelLit \o IdLong, ChannelLit \o IdShort,
      <<"/","@","a","b">>, <<"/","u","s","e","r","/","b","o","b">>,
      <<"/","c","/","M","y",".","N">>, <<"/","v","i","d","s">> }

RECURSIVE Concat(_)
Concat(ss) == IF ss = <<>> THEN <<>> ELSE Head(ss) \o Concat(Tail(ss))

Paths == UNION {{Concat(f) : f \in [1..n -> SegPool]} : n \in 0..MaxSegs}

UrlInputs ==
    {sch \o Host \o p \o sl : sch \in {Http, Https}, p \in Paths,
                              sl \in {<<>>, <<"/">>}}

PlainInputs ==
    { <<>>, <<"@","a","b">>, <<"b","o","b">>, <<"m","y"," ","n">>,
      IdV1, IdV2, IdLong, IdShort,
      <<"u","c">> \o Rep("a", IdBodyLen),
      <<"U","C">> \o Rep("a", IdBodyLen - 1) \o <<"!">>,
      Host \o ChannelLit \o IdV1 }

Pads == {<<<<>>, <<>>>>, <<<<" ">>, <<"\n">>>>, <<<<"\t", " ">>, <<>>>>}

Inputs ==
    {pd[1] \o b \o pd[2] : pd \in Pads, b \in UrlInputs \cup PlainInputs}

\* ---- the resolver's steps ----
InitR ==
    /\ input_str \in Inputs
    /\ rpc = "start"
    /\ rarg = <<>>
    /\ calls = <<>>
    /\ routcome = NoOutcome

IdleR ==
    /\ input_str = <<>>
    /\ rpc = "off"
    /\ rarg = <<>>
    /\ calls = <<>>
    /\ routcome = NoOutcome

\* resolve_to_channel_id up to its first upstream call (or its return)
resolve_to_channel_id ==
    /\ rpc = "start"
    /\ LET s == strip(input_str)
           r == RouteOf(s)
       IN  CASE r.kind = "empty" ->
                  /\ routcome' = Raised("ValueError", "Empty channel input.")
                  /\ rpc' = "done"
                  /\ rarg' = rarg
             [] r.kind = "return" ->
                  /\ routcome' = Returned(r.arg)
                  /\ rpc' = "done"
                  /\ rarg' = rarg
             [] OTHER ->
                  /\ rpc' = r.kind
                  /\ rarg' = r.arg
                  /\ routcome' = routcome
    /\ UNCHANGED <<input_str, calls, varsF, varsK>>

\* channel_id_from_handle: one channels call with forHandle
channel_id_from_handle(resp) ==
    /\ rpc = "handle"
    /\ calls' = Append(calls, Call("forHandle", rarg, resp))
    /\ rpc' = "done"
    /\ routcome' = IF ~resp.json THEN Raised("JSONDecodeError", "")
                   ELSE IF resp.items = <<>>
                        THEN Raised("ValueError", "Handle not found")
                        ELSE Returned(resp.items[1])
    /\ UNCHANGED <<input_str, rarg, varsF, varsK>>

\* a plausible slip: an empty username result raises instead of searching
username_empty_raises ==
    /\ rpc' = "done"
    /\ routcome' = Raised("ValueError", "Username not found")

\* channel_id_from_username on an empty result: falls back to
\* channel_id_from_search(api_key, username)
username_empty ==
    /\ rpc' = "search"
    /\ routcome' = routcome

\* channel_id_from_username: one channels call with forUsername
channel_id_from_username(resp) ==
    /\ rpc = "username"
    /\ calls' = Append(calls, Call("forUsername", rarg, resp))
    /\ IF ~resp.json
         THEN /\ rpc' = "done"
              /\ routcome' = Raised("JSONDecodeError", "")
         ELSE IF resp.items = <<>>
              THEN username_empty
              ELSE /\ rpc' = "done"
                   /\ routcome' = Returned(resp.items[1])
    /\ UNCHANGED <<input_str, rarg, varsF, varsK>>

\* channel_id_from_search: one search call, type=channel, maxResults=1
channel_id_from_search(resp) ==
    /\ rpc = "search"
    /\ calls' = Append(calls, Call("search", rarg, resp))
    /\ rpc' = "done"
    /\ routcome' = IF ~resp.json THEN Raised("JSONDecodeError", "")
                   ELSE IF resp.items = <<>>
                        THEN Raised("ValueError", "No channel found")
                        ELSE Returned(resp.items[1])
    /\ UNCHANGED <<input_str, rarg, varsF, varsK>>

NextR ==
    \/ resolve_to_channel_id
    \/ \E resp \in LookupResponses : channel_id_from_handle(resp)
    \/ \E resp \in LookupResponses : channel_id_from_username(resp)
    \/ \E resp \in LookupResponses : channel_id_from_search(resp)

\* --------------------------------------------------------------------------
\* Fetch pipeline
\* --------------------------------------------------------------------------
\* "maxResults": 50 of the playlistItems call
PageSize == 50
\* the 50 of chunk(video_ids, 50)
BatchSize == 50

DigitSeq == <<"0","1","2","3","4","5","6","7","8","9">>
DigitVal(c) == (CHOOSE i \in 1..10 : DigitSeq[i] = c) - 1

\* int() of a string of decimal digits
RECURSIVE DigitsValue(_)
DigitsValue(ds) ==
    IF ds = <<>> THEN 0
    ELSE 10 * DigitsValue(SubSeq(ds, 1, Len(ds) - 1)) + DigitVal(ds[Len(ds)])

\* one optional group (?:(\d+)U)? tried at position p: the digits must be
\* followed by the unit letter, otherwise the group matches nothing
Component(s, p, unit) ==
    LET e == RunEnd(s, p, Digits)
    IN  IF e >= p /\ e + 1 <= Len(s) /\ s[e + 1] = unit
        THEN [val |-> DigitsValue(SubSeq(s, p, e)), next |-> e + 2]
        ELSE [val |-> 0, next |-> p]

\* iso_to_seconds: re.match (anchored at the start only) of
\* PT(?:(\d+)H)?(?:(\d+)M)?(?:(\d+)S)? ; ok = FALSE is m = None, on which
\* m.group raises AttributeError
iso_to_seconds(iso) ==
    IF ~startswith(iso, <<"P","T">>) THEN [ok |-> FALSE, value |-> 0]
    ELSE LET h == Component(iso, 3, "H")
             m == Component(iso, h.next, "M")
             s == Component(iso, m.next, "S")
         IN  [ok |-> TRUE, value |-> h.val * 3600 + m.val * 60 + s.val]

\* chunk(lst, n), as the list of the slices it yields
RECURSIVE chunk(_, _)
chunk(lst, n) ==
    IF lst = <<>> THEN <<>>
    ELSE IF Len(lst) <= n THEN <<lst>>
    ELSE <<SubSeq(lst, 1, n)>> \o chunk(SubSeq(lst, n + 1, Len(lst)), n)

\* a plausible slip: raising on server errors only
raise_for_5xx(status) == status >= 500

\* r.raise_for_status(): raises HTTPError on a 4xx or 5xx status
raise_for_status(status) == status >= 400 /\ status < 600

\* a plausible slip: > for >=
LoopDone_gt(tok, n, max) == tok = None \/ n > max

\* list_upload_video_ids: `if not token or len(ids) >= max_items: break`
LoopDone(tok, n, max) == tok = None \/ n >= max

\* ids[:max_items] for max_items >= 0
Truncate(lst, max) == SubSeq(lst, 1, IF Len(lst) < max THEN Len(lst) ELSE max)

\* int(stats.get(k, 0)) if stats.get(k, "0").isdigit() else 0
StatInt(stats, k) ==
    IF k \notin DOMAIN stats THEN 0
    ELSE IF stats[k] # <<>> /\ \A i \in 1..Len(stats[k]) : stats[k][i] \in Digits
         THEN DigitsValue(stats[k])
         ELSE 0

\* the record fetch_video_details appends for one item (title, url and
\* thumbnail are copied from the item and take no part in what follows)
Record(id, raw, seconds) ==
    [id |-> id,
     publishedAt |-> raw.publishedAt,
     duration_seconds |-> seconds,
     likes |-> StatInt(raw.statistics, "likeCount"),
     comments |-> StatInt(raw.statistics, "commentCount")]

\* the key of load_channel_data's sort: publishedAt or datetime.min
SortKey(r) == r.publishedAt

\* details.sort(key=..., reverse=True): descending and stable
RECURSIVE SortByKeys(_, _)
SortByKeys(recs, keys) ==
    IF keys = {} THEN <<>>
    ELSE LET k == Max(keys)
         IN  SelectSeq(recs, LAMBDA r : SortKey(r) = k)
                \o SortByKeys(recs, keys \ {k})

SortNewestFirst(recs) ==
    SortByKeys(recs, {SortKey(recs[i]) : i \in 1..Len(recs)})

\* ---- the upstream API as the pipeline sees it ----
\* what the details endpoint may return for the items of one batch: the
\* publish instant (None when omitted), the ISO-8601 duration text and the
\* statistics, which the API sends as strings and may omit
RawItems ==
    { [publishedAt |-> 2, duration |-> <<"P","T","1","H","2","M","3","S">>,
       statistics |-> [likeCount |-> <<"1","0">>, commentCount |-> <<"3">>]],
      [publishedAt |-> None, duration |-> <<"P","T","1","H","2","X">>,
       statistics |-> [commentCount |-> <<"x">>]],
      [publishedAt |-> 3, duration |-> <<"P","1","D","T","1","H">>,
       statistics |-> [likeCount |-> <<"7">>, commentCount |-> <<"1">>]] }

\* An answer of an endpoint of the pipeline: the status, how many items the
\* body carries (none in an error body), the nextPageToken (None when
\* absent) and, for the details endpoint, what its items look like.
NoItem == [publishedAt |-> None, duration |-> <<>>, statistics |-> <<>>]
Answer(status, n, next, raw) ==
    [status |-> status, n |-> n, next |-> next, raw |-> raw]

ErrorAnswers == {Answer(st, 0, None, NoItem) : st \in Statuses \ {200}}

\* the channels call: the channel is found or not
MetaAnswers == {Answer(200, n, None, NoItem) : n \in {0, 1}} \cup ErrorAnswers

\* a playlistItems page carries at most maxResults items; the container ends
\* within MaxPages pages, so the last of them has no nextPageToken
PageAnswers(page) ==
    {Answer(200, n, next, NoItem) :
        n \in {0, 20, PageSize},
        next \in {None} \cup (IF page < MaxPages THEN {page} ELSE {})}
    \cup ErrorAnswers

\* the videos call answers with one item per requested ID
DetailAnswers(sent) ==
    {Answer(200, sent, None, raw) : raw \in RawItems} \cup ErrorAnswers

FCall(fn, sent, resp) ==
    [fn |-> fn, status |-> resp.status, sent |-> sent, got |-> resp.n,
     duration |-> resp.raw.duration]

FNone == [kind |-> "none", status |-> 0, records |-> <<>>]
FRaised(kind, status) == [kind |-> kind, status |-> status, records |-> <<>>]
FReturned(recs) == [kind |-> "return", status |-> 0, records |-> recs]

\* the chunk the next videos call is for
NextGroup == IF groups = <<>> THEN <<>> ELSE Head(groups)

PageCalls == SelectSeq(fcalls, LAMBDA c : c.fn = "playlistItems")
DetailCalls == SelectSeq(fcalls, LAMBDA c : c.fn = "videos")

\* the values of max_items a fetch is started with: around every multiple
\* of the page size, and in between
MaxItemsValues ==
    {m \in 0..MaxItemsBound : m % PageSize \in {0, 1, 20, 21, 49}}

\* ---- the pipeline's steps ----
InitF ==
    /\ fpc = "meta"
    /\ max_items \in MaxItemsValues
    /\ ids = <<>>
    /\ token = None
    /\ groups = <<>>
    /\ out = <<>>
    /\ fcalls = <<>>
    /\ foutcome = FNone

IdleF ==
    /\ fpc = "off"
    /\ max_items = 0
    /\ ids = <<>>
    /\ token = None
    /\ groups = <<>>
    /\ out = <<>>
    /\ fcalls = <<>>
    /\ foutcome = FNone

\* load_channel_data once fetch_video_details has returned `details`:
\* sort newest first and return
Finish(details) ==
    /\ fpc' = "done"
    /\ foutcome' = FReturned(SortNewestFirst(details))

\* get_uploads_playlist_id: the channels call for contentDetails
get_uploads_playlist_id(resp) ==
    /\ fpc = "meta"
    /\ fcalls' = Append(fcalls, FCall("channels", 0, resp))
    /\ IF raise_for_status(resp.status)
         THEN /\ fpc' = "done"
              /\ foutcome' = FRaised("HTTPError", resp.status)
         ELSE IF resp.n = 0
              THEN /\ fpc' = "done"
                   /\ foutcome' = FRaised("ValueError", 0)
              ELSE /\ fpc' = "page"
                   /\ foutcome' = foutcome
    /\ UNCHANGED <<max_items, ids, token, groups, out, varsR, varsK>>

\* list_upload_video_ids: one turn of its loop, a playlistItems call.  When
\* the loop ends, the truncated list is handed to fetch_video_details, which
\* returns [] for an empty list and otherwise cuts it into chunks.
list_upload_video_ids(resp) ==
    /\ fpc = "page"
    /\ fcalls' = Append(fcalls, FCall("playlistItems", 0, resp))
    /\ IF raise_for_status(resp.status)
         THEN /\ fpc' = "done"
              /\ foutcome' = FRaised("HTTPError", resp.status)
              /\ UNCHANGED <<ids, token, groups>>
         ELSE LET all == ids \o [i \in 1..resp.n |-> Len(ids) + i]
              IN  /\ token' = resp.next
                  /\ IF LoopDone(resp.next, Len(all), max_items)
                       THEN LET video_ids == Truncate(all, max_items)
                            IN  /\ ids' = video_ids
                                /\ groups' = chunk(video_ids, BatchSize)
                                /\ IF video_ids = <<>>
                                     THEN Finish(<<>>)
                                     ELSE /\ fpc' = "details"
                                          /\ foutcome' = foutcome
                       ELSE /\ ids' = all
                            /\ fpc' = "page"
                            /\ UNCHANGED <<groups, foutcome>>
    /\ UNCHANGED <<max_items, out, varsR, varsK>>

\* fetch_video_details: one turn of its loop, a videos call for the next
\* chunk, whose items come back in the order of the IDs
fetch_video_details(resp) ==
    /\ fpc = "details"
    /\ LET group == NextGroup
           got == SubSeq(group, 1, resp.n)
           decoded == iso_to_seconds(resp.raw.duration)
       IN  /\ fcalls' = Append(fcalls, FCall("videos", Len(group), resp))
           /\ IF raise_for_status(resp.status)
                THEN /\ fpc' = "done"
                     /\ foutcome' = FRaised("HTTPError", resp.status)
                     /\ UNCHANGED <<groups, out>>
                ELSE IF got # <<>> /\ ~decoded.ok
                     THEN /\ fpc' = "done"
                          /\ foutcome' = FRaised("AttributeError", 0)
                          /\ UNCHANGED <<groups, out>>
                     ELSE LET more ==
                                out \o [i \in 1..Len(got) |->
                                          Record(got[i], resp.raw, decoded.value)]
                          IN  /\ out' = more
                              /\ groups' = Tail(groups)
                              /\ IF Tail(groups) = <<>>
                                   THEN Finish(more)
                                   ELSE /\ fpc' = "details"
                                        /\ foutcome' = foutcome
    /\ UNCHANGED <<max_items, ids, token, varsR, varsK>>

NextF ==
    \/ \E resp \in MetaAnswers : get_uploads_playlist_id(resp)
    \/ \E resp \in PageAnswers(Len(PageCalls) + 1) : list_upload_video_ids(resp)
    \/ \E resp \in DetailAnswers(Len(NextGroup)) : fetch_video_details(resp)

\* --------------------------------------------------------------------------
\* Aggregator
\* --------------------------------------------------------------------------
\* the value of most_liked / most_commented when the pool is empty (None)
NoVideo == [id |-> 0]

\* a plausible slip: a closed interval
in_range_closed(ts, s, e) ==
    IF ts = None THEN FALSE ELSE (ts >= s) /\ (ts <= e)

\* in_range(ts, start, end)
in_range(ts, s, e) ==
    IF ts = None THEN FALSE ELSE (ts >= s) /\ (ts < e)

\* a plausible slip: >= for > in the long-form test
IsLong_ge(v, thr) == v.duration_seconds >= thr

\* v["duration_seconds"] > short_threshold_sec
IsLong(v, thr) == v.duration_seconds > thr

\* v["duration_seconds"] <= short_threshold_sec
IsShort(v, thr) == v.duration_seconds <= thr

\* x.get(key, 0)
Get(x, key) == IF key \in DOMAIN x THEN x[key] ELSE 0

\* max(pool, key=...) keeps the element it holds unless a later one is
\* strictly greater
RECURSIVE MaxFrom(_, _, _)
MaxFrom(best, rest, key) ==
    IF rest = <<>> THEN best
    ELSE MaxFrom(IF Get(Head(rest), key) > Get(best, key)
                 THEN Head(rest) ELSE best, Tail(rest), key)

\* a plausible slip: a later element replaces an equal one
RECURSIVE MaxFromLast(_, _, _)
MaxFromLast(best, rest, key) ==
    IF rest = <<>> THEN best
    ELSE MaxFromLast(IF Get(Head(rest), key) >= Get(best, key)
                     THEN Head(rest) ELSE best, Tail(rest), key)

top_by_last(key, pool) ==
    IF pool = <<>> THEN NoVideo ELSE MaxFromLast(Head(pool), Tail(pool), key)

\* compute_kpis.top_by(key, pool)
top_by(key, pool) ==
    IF pool = <<>> THEN NoVideo ELSE MaxFrom(Head(pool), Tail(pool), key)

\* compute_kpis(videos, start, end, short_threshold_sec)
compute_kpis(vs, s, e, thr) ==
    LET items == SelectSeq(vs, LAMBDA v : in_range(v.publishedAt, s, e))
        videos_only == SelectSeq(items, LAMBDA v : IsLong(v, thr))
        shorts_only == SelectSeq(items, LAMBDA v : IsShort(v, thr))
    IN  [items |-> items,
         count_total |-> Len(items),
         count_videos |-> Len(videos_only),
         count_shorts |-> Len(shorts_only),
         most_liked |-> top_by("likes", items),
         most_commented |-> top_by("comments", items)]

\* ---- inputs ----
\* most records in a video list handed to compute_kpis
MaxVideos == 3
\* the default short_threshold_sec
DefaultThreshold == 60

\* the fields of a record that compute_kpis reads; the id is the record's
\* position in the list, so that equal-looking records stay distinct
VideoFields ==
    [publishedAt : {None, 1, 2},
     duration_seconds : {DefaultThreshold, DefaultThreshold + 1},
     stats : {<<1, 2>>, <<2, 1>>, <<2, 2>>}]

\* the video list with the fields f[1], ..., f[n]
VideoList(f) ==
    [i \in DOMAIN f |->
        [id |-> i,
         publishedAt |-> f[i].publishedAt,
         duration_seconds |-> f[i].duration_seconds,
         likes |-> f[i].stats[1],
         comments |-> f[i].stats[2]]]

NoKpis == [items |-> <<>>, count_total |-> 0, count_videos |-> 0,
           count_shorts |-> 0, most_liked |-> NoVideo,
           most_commented |-> NoVideo]

InitK ==
    /\ kpc = "call"
    /\ \E n \in 0..MaxVideos :
          \E f \in [1..n -> VideoFields] : videos = VideoList(f)
    /\ start \in {1, 2}
    /\ end \in {2, 3}
    /\ short_threshold_sec = DefaultThreshold
    /\ kpis = NoKpis

IdleK ==
    /\ kpc = "off"
    /\ videos = <<>>
    /\ start = 0
    /\ end = 0
    /\ short_threshold_sec = 0
    /\ kpis = NoKpis

ComputeKpis ==
    /\ kpc = "call"
    /\ kpis' = compute_kpis(videos, start, end, short_threshold_sec)
    /\ kpc' = "done"
    /\ UNCHANGED <<videos, start, end, short_threshold_sec, varsR, varsF>>

NextK == ComputeKpis

\* --------------------------------------------------------------------------
\* Specifications
\* --------------------------------------------------------------------------
InitResolve == InitR /\ IdleF /\ IdleK
InitFetch == IdleR /\ InitF /\ IdleK
InitKpis == IdleR /\ IdleF /\ InitK

SpecResolve == InitResolve /\ [][NextR]_vars
SpecFetch == InitFetch /\ [][NextF]_vars
SpecKpis == InitKpis /\ [][NextK]_vars

\* --------------------------------------------------------------------------
\* Properties of the fetch pipeline (SpecFetch)
\* --------------------------------------------------------------------------
\* C1: a non-success status on the metadata call, on any pagination call or
\* on any details call aborts the whole fetch: the failing call is the last
\* call ever issued, and the caller receives the HTTP error with that status
\* and no video record, whatever earlier pages and batches had delivered.
C1_FailureAbortsFetch ==
    \A i \in 1..Len(fcalls) :
        fcalls[i].status # 200 =>
            /\ i = Len(fcalls)
            /\ fpc = "done"
            /\ foutcome.kind = "HTTPError"
            /\ foutcome.status = fcalls[i].status
            /\ foutcome.records = <<>>

\* a details call fails after two pages and one batch had succeeded
C1_Witness ==
    /\ fpc = "done"
    /\ foutcome.kind = "HTTPError"
    /\ Len(PageCalls) >= 2
    /\ Len(DetailCalls) >= 2
    /\ out # <<>>

CeilPages(m) == (m + PageSize - 1) \div PageSize

\* every pagination call so far succeeded and returned a full page
FullPages ==
    \A i \in 1..Len(PageCalls) :
        PageCalls[i].status = 200 /\ PageCalls[i].got = PageSize

\* list_upload_video_ids has returned
PagingDone ==
    \/ fpc = "details"
    \/ fpc = "done" /\ PageCalls # <<>>
                    /\ PageCalls[Len(PageCalls)].status = 200

\* the container did not run out before max_items items were seen
ContainerHolds ==
    (PagingDone /\ token = None) => Len(PageCalls) * PageSize >= max_items

\* C2: for max_items >= 1, with full pages of 50 and a container of at least
\* max_items items, there are never more than ceil(max_items/50) pagination
\* calls nor details calls; when pagination has ended there were exactly
\* ceil(max_items/50) pagination calls and exactly max_items IDs; the k-th
\* details call carries min(50, max_items - 50(k-1)) IDs (50, 50, 20 for
\* 120); and a fetch that returns has issued exactly ceil(max_items/50)
\* details calls.
C2_CallCounts ==
    (max_items >= 1 /\ FullPages /\ ContainerHolds) =>
        /\ Len(PageCalls) <= CeilPages(max_items)
        /\ Len(DetailCalls) <= CeilPages(max_items)
        /\ PagingDone =>
              /\ Len(PageCalls) = CeilPages(max_items)
              /\ Len(ids) = max_items
        /\ \A k \in 1..Len(DetailCalls) :
              LET rest == max_items - BatchSize * (k - 1)
              IN  DetailCalls[k].sent =
                     IF rest < BatchSize THEN rest ELSE BatchSize
        /\ foutcome.kind = "return" =>
              Len(DetailCalls) = CeilPages(max_items)

\* the fetch of 120 items has returned after 3 full pages and 3 batches
C2_Witness ==
    /\ max_items = 2 * PageSize + 20
    /\ FullPages
    /\ foutcome.kind = "return"
    /\ Len(PageCalls) = 3
    /\ Len(DetailCalls) = 3
    /\ DetailCalls[3].sent = 20
    /\ Len(foutcome.records) = max_items

\* the text is PT, then optional <digits>H, <digits>M, <digits>S, in that
\* order, and nothing else
DurationPart(s, unit) ==
    \/ s = <<>>
    \/ /\ Len(s) >= 2
       /\ s[Len(s)] = unit
       /\ \A k \in 1..(Len(s) - 1) : s[k] \in Digits

IsDurationForm(iso) ==
    /\ Len(iso) >= 2
    /\ iso[1] = "P"
    /\ iso[2] = "T"
    /\ \E i \in 2..Len(iso) : \E j \in i..Len(iso) :
          /\ DurationPart(SubSeq(iso, 3, i), "H")
          /\ DurationPart(SubSeq(iso, i + 1, j), "M")
          /\ DurationPart(SubSeq(iso, j + 1, Len(iso)), "S")

\* C10: an unparseable duration text (not of the form PT#H#M#S) in a details
\* answer is a hard failure of the fetch: the fetch ends there with an
\* error, and no record is built from that text.
C10_UnparseableDurationFails ==
    \A i \in 1..Len(fcalls) :
        (/\ fcalls[i].fn = "videos"
         /\ fcalls[i].status = 200
         /\ fcalls[i].got > 0
         /\ ~IsDurationForm(fcalls[i].duration)) =>
            /\ i = Len(fcalls)
            /\ fpc = "done"
            /\ foutcome.kind \notin {"none", "return"}

\* --------------------------------------------------------------------------
\* Properties of the resolver (SpecResolve)
\* --------------------------------------------------------------------------
\* C3: a non-success answer to any upstream call, the handle, username and
\* search lookups included, reaches the caller as an API error carrying the
\* status.
C3_ErrorSurfacesAsApiError ==
    \A i \in 1..Len(calls) :
        calls[i].resp.status # 200 =>
            /\ rpc = "done"
            /\ routcome.kind = "HTTPError"
            /\ routcome.status = calls[i].resp.status

\* the two-letter prefix followed by 22 characters of [0-9A-Za-z_-]
CanonicalShape(x) ==
    /\ Len(x) = 24
    /\ x[1] = "U" /\ x[2] = "C"
    /\ \A k \in 3..24 : x[k] \in Digits \cup Upper \cup Lower \cup {"_", "-"}

\* the positions at which inp holds a canonical ID with only whitespace
\* before and after it (at most one)
TrimmedIdAt(inp) ==
    {i \in 1..Len(inp) :
        /\ i + 23 <= Len(inp)
        /\ CanonicalShape(SubSeq(inp, i, i + 23))
        /\ \A k \in 1..(i - 1) : inp[k] \in Whitespace
        /\ \A k \in (i + 24)..Len(inp) : inp[k] \in Whitespace}

\* C4: when the trimmed input has the canonical ID shape, the resolver
\* returns the trimmed input as it is and issues no upstream call.
C4_CanonicalIdNoCalls ==
    \A i \in TrimmedIdAt(input_str) :
        rpc # "start" =>
            /\ rpc = "done"
            /\ routcome = Returned(SubSeq(input_str, i, i + 23))
            /\ calls = <<>>

\* a canonical ID given with whitespace around it has been returned
C4_Witness ==
    /\ rpc = "done"
    /\ Len(input_str) > 24
    /\ TrimmedIdAt(input_str) # {}
    /\ routcome.kind = "return"
    /\ calls = <<>>

\* the trimmed input starts with http:// or https://
IsAbsoluteUrl(s) == startswith(s, Http) \/ startswith(s, Https)

\* where s holds /channel/ followed by a canonical ID
ChannelSegmentsAt(s) ==
    {i \in 1..Len(s) :
        /\ MatchAt(s, i, ChannelLit)
        /\ i + 32 <= Len(s)
        /\ CanonicalShape(SubSeq(s, i + 9, i + 32))}

\* C5: for a URL input that holds /channel/<ID> with <ID> of canonical
\* shape, the resolver returns that <ID> (the leftmost one) and never starts
\* the handle lookup, the username lookup or the search, also when the URL
\* holds an /@handle, /user/<name> or /c/<name> segment as well.
C5_ChannelUrlNoLookups ==
    LET s == strip(input_str)
        at == ChannelSegmentsAt(s)
    IN  (IsAbsoluteUrl(s) /\ at # {} /\ rpc # "start") =>
            /\ rpc = "done"
            /\ calls = <<>>
            /\ routcome = Returned(SubSeq(s, Min(at) + 9, Min(at) + 32))

\* a URL with a /channel/<ID> segment behind a handle, user or custom
\* segment has been resolved
C5_Witness ==
    LET s == strip(input_str)
        at == ChannelSegmentsAt(s)
    IN  /\ rpc = "done"
        /\ IsAbsoluteUrl(s)
        /\ at # {}
        /\ \E i \in 1..Min(at) :
              MatchAt(s, i, HandleLit) \/ MatchAt(s, i, UserLit)
                  \/ MatchAt(s, i, CustomLit)
        /\ routcome.kind = "return"

\* the call's answer is readable and holds no result
NoResults(c) == c.resp.json /\ c.resp.items = <<>>

\* C6: after a username lookup without results the resolver has not failed:
\* the next and only further call is one search with the same string as
\* the query; the resolver returns that search's first channel ID if there
\* is one, and the 'no channel found' error is raised only by a search that
\* returned no results.
C6_UsernameFallsBackToSearch ==
    /\ \A i \in 1..Len(calls) :
          (calls[i].fn = "forUsername" /\ NoResults(calls[i])) =>
              \/ /\ i = Len(calls)
                 /\ rpc = "search"
                 /\ rarg = calls[i].arg
                 /\ routcome = NoOutcome
              \/ /\ Len(calls) = i + 1
                 /\ rpc = "done"
                 /\ calls[i + 1].fn = "search"
                 /\ calls[i + 1].arg = calls[i].arg
                 /\ (calls[i + 1].resp.items # <<>> =>
                        routcome = Returned(calls[i + 1].resp.items[1]))
                 /\ (routcome.msg = "No channel found"
                        <=> NoResults(calls[i + 1]))
    /\ routcome.msg = "No channel found" =>
          /\ calls # <<>>
          /\ calls[Len(calls)].fn = "search"
          /\ NoResults(calls[Len(calls)])

\* an empty username answer was followed by a search that found a channel
C6_Witness ==
    /\ rpc = "done"
    /\ Len(calls) = 2
    /\ calls[1].fn = "forUsername"
    /\ calls[1].resp.status = 200
    /\ NoResults(calls[1])
    /\ calls[2].fn = "search"
    /\ routcome.kind = "return"

\* --------------------------------------------------------------------------
\* Properties of the aggregator (SpecKpis)
\* --------------------------------------------------------------------------
\* the record has a publish instant inside [start, end)
InWindow(v) ==
    v.publishedAt # None /\ start <= v.publishedAt /\ v.publishedAt < end

\* the positions of the input records inside the window
WindowAt == {i \in 1..Len(videos) : InWindow(videos[i])}

\* the k-th smallest element of a set of naturals
Kth(S, k) == CHOOSE i \in S : Cardinality({j \in S : j <= i}) = k

\* C7: the items of compute_kpis are exactly the input records with a
\* defined publishedAt and start <= publishedAt < end, in input order: a
\* record published at end is left out, one published at start is kept, a
\* record without publishedAt is never kept.
C7_ItemsAreHalfOpenWindow ==
    kpc = "done" =>
        /\ Len(kpis.items) = Cardinality(WindowAt)
        /\ \A k \in 1..Len(kpis.items) :
              kpis.items[k] = videos[Kth(WindowAt, k)]

\* records at start, at end and without an instant went through the filter
C7_Witness ==
    /\ kpc = "done"
    /\ start < end
    /\ \E i, j, k \in 1..Len(videos) :
          /\ videos[i].publishedAt = start
          /\ videos[j].publishedAt = end
          /\ videos[k].publishedAt = None
    /\ Len(kpis.items) = 1

\* C8: the long-form and short-form groups bisect the in-range records: the
\* short-form count is the number of in-range records with duration <=
\* threshold, the long-form count is the number of the others, and
\* count_total is their sum.
C8_StrictBisection ==
    kpc = "done" =>
        LET at == 1..Len(kpis.items)
            short == {i \in at : kpis.items[i].duration_seconds
                                    <= short_threshold_sec}
        IN  /\ kpis.count_shorts = Cardinality(short)
            /\ kpis.count_videos = Cardinality(at \ short)
            /\ kpis.count_total = Len(kpis.items)
            /\ kpis.count_total = kpis.count_videos + kpis.count_shorts

\* a record at the threshold and one a second above it were both counted
C8_Witness ==
    /\ kpc = "done"
    /\ \E i, j \in 1..Len(kpis.items) :
          /\ kpis.items[i].duration_seconds = short_threshold_sec
          /\ kpis.items[j].duration_seconds = short_threshold_sec + 1
    /\ kpis.count_shorts >= 1
    /\ kpis.count_videos >= 1

\* top is the first record of pool, in order, with the largest value of key
FirstMax(top, pool, key) ==
    \E i \in 1..Len(pool) :
        /\ top = pool[i]
        /\ \A j \in 1..Len(pool) : pool[j][key] <= pool[i][key]
        /\ \A j \in 1..(i - 1) : pool[j][key] < pool[i][key]

\* C9: most_liked and most_commented are absent exactly when no record is in
\* range; otherwise each is an in-range record with the largest likes
\* (comments), the first such record in input order.
C9_TopIsFirstMaximum ==
    kpc = "done" =>
        IF kpis.items = <<>>
        THEN kpis.most_liked = NoVideo /\ kpis.most_commented = NoVideo
        ELSE /\ kpis.most_liked # NoVideo
             /\ kpis.most_commented # NoVideo
             /\ FirstMax(kpis.most_liked, kpis.items, "likes")
             /\ FirstMax(kpis.most_commented, kpis.items, "comments")

\* two in-range records tie at the largest likes behind a smaller one, and
\* the earlier of the two was chosen
C9_Witness ==
    /\ kpc = "done"
    /\ Len(kpis.items) = 3
    /\ kpis.items[1].likes < kpis.items[2].likes
    /\ kpis.items[2].likes = kpis.items[3].likes
    /\ kpis.most_liked = kpis.items[2]

====
